---- MODULE Spec2Model ----
(***************************************************************************)
(* Model of push_excel_to_google_sheet (src/rps_scraper_to_sheet.py).      *)
(*                                                                         *)
(* A cell is a sequence of one-character strings, so that str.strip and    *)
(* str.replace(" ", "") are computed character by character.  A float cell *)
(* that pandas reads from the workbook (NaN, inf, -inf) is the one-element *)
(* sequence holding the float's name.  A DataFrame is a record with an     *)
(* ordered list of column names and a list of rows; every row keeps the    *)
(* index label it had in the workbook.  The worksheet is a header row and  *)
(* the data rows under it.                                                 *)
(***************************************************************************)
EXTENDS Integers, Sequences, FiniteSets, TLC

(* ---- bounds ---- *)
MaxRecords == 3      \* records in the downloaded workbook
MaxRows == 2         \* data rows in the worksheet before the first run
MaxRuns == 2         \* successive runs of the script on the same workbook

(* ---- cells ---- *)
Empty == <<>>
NaN == <<"nan">>
Inf == <<"inf">>
NegInf == <<"-inf">>

Digits == <<"0", "1", "2", "3", "4", "5", "6", "7", "8", "9">>

IsDigit(c) == \E d \in 1..Len(Digits) : Digits[d] = c

DigitVal(c) == (CHOOSE d \in 1..Len(Digits) : Digits[d] = c) - 1

AllDigits(s) == s # <<>> /\ \A i \in 1..Len(s) : IsDigit(s[i])

RECURSIVE lstrip(_)
lstrip(s) == IF s # <<>> /\ Head(s) = " " THEN lstrip(Tail(s)) ELSE s

RECURSIVE rstrip(_)
rstrip(s) == IF s # <<>> /\ s[Len(s)] = " " THEN rstrip(SubSeq(s, 1, Len(s) - 1)) ELSE s

\* str.strip()
strip(s) == rstrip(lstrip(s))

\* str.replace(" ", "")
replace_spaces(s) == SelectSeq(s, LAMBDA c : c # " ")

RECURSIVE IntOf(_)
IntOf(s) == IF s = <<>> THEN 0 ELSE 10 * IntOf(SubSeq(s, 1, Len(s) - 1)) + DigitVal(s[Len(s)])

RECURSIVE StrOfInt(_)
StrOfInt(n) == IF n < 10 THEN <<Digits[n + 1]>> ELSE Append(StrOfInt(n \div 10), Digits[(n % 10) + 1])

\* gspread's numericise followed by str(): a cell that int() accepts (digits,
\* surrounding blanks allowed) comes back as that integer's decimal text
numericise_str(s) == IF AllDigits(strip(s)) THEN StrOfInt(IntOf(strip(s))) ELSE s

(* ---- timestamps ---- *)
NaT == [valid |-> FALSE, t |-> 0]

Timestamp(n) == [valid |-> TRUE, t |-> n]

\* pd.to_datetime(..., errors="coerce"): a date is written as a day number,
\* anything else coerces to NaT
to_datetime(s) == IF AllDigits(s) THEN Timestamp(IntOf(s)) ELSE NaT

\* str() of a Timestamp / NaT, as astype(str) renders the column
str_datetime(ts) ==
    IF ~ts.valid THEN <<"N", "a", "T">>
    ELSE IF ts.t < 10 THEN <<"0">> \o StrOfInt(ts.t) ELSE StrOfInt(ts.t)

(* ---- columns ---- *)
SourceColumns == <<"RPS Number", "Vehicle Number", "Dispatch Date", "Closure Date", "Route Name", "Transit Time">>

MappedSource == {"RPS Number", "Vehicle Number", "Dispatch Date", "Closure Date", "Route Name"}

column_mapping ==
    [c \in MappedSource |->
        CASE c = "RPS Number" -> "RPS No"
          [] c = "Vehicle Number" -> "Vehicle_Number"
          [] c = "Dispatch Date" -> "Route_Start_Date_Time"
          [] c = "Closure Date" -> "Route_Reaching_Date_Time"
          [] c = "Route Name" -> "Route"]

MappedHeaders == {column_mapping[c] : c \in MappedSource}

reverse_mapping == [h \in MappedHeaders |-> CHOOSE c \in MappedSource : column_mapping[c] = h]

Range(s) == {s[i] : i \in 1..Len(s)}

HasColumn(cols, name) == name \in Range(cols)

ColIndex(cols, name) == CHOOSE i \in 1..Len(cols) : cols[i] = name

(* ---- the workbook and the worksheet the run starts from ---- *)
A1 == <<"A", "1">>
A2 == <<"A", "2">>
A3 == <<"A", "3">>

\* a workbook row, cell by cell in the order of SourceColumns
Rec(id, closure, route) == <<id, <<"K">>, <<"1">>, closure, route, <<"9">>>>

Specimens ==
    << Rec(A3, <<"x">>, <<" ", "X">>),
       Rec(A1, <<"2">>, <<"X", " ", "Y">>),
       Rec(A1 \o <<" ">>, <<"1">>, <<"X">>),
       Rec(A3, <<"0", "2">>, <<"X">>),
       Rec(A2, NaN, <<"X">>),
       Rec(A3, Empty, <<"X">>),
       Rec(A2, Inf, <<"X">>) >>

Without(name) == SelectSeq(SourceColumns, LAMBDA c : c # name)

Schemas == {SourceColumns, Without("RPS Number"), Without("Closure Date"), Without("Vehicle Number")}

Project(rec, cols) == [j \in 1..Len(cols) |-> rec[ColIndex(SourceColumns, cols[j])]]

\* batches are listed in non-decreasing specimen order: the order of the
\* workbook's rows reaches the worksheet only through sort_values
Batches ==
    {b \in UNION {[1..n -> 1..Len(Specimens)] : n \in 0..MaxRecords} :
        \A i \in 1..(Len(b) - 1) : b[i] <= b[i + 1]}

\* a workbook that lacks a column holds at most one record: the run on it
\* ends at the first access to the missing column, however many records follow
Workbooks ==
    {[columns |-> w[2], rows |-> [i \in 1..Len(w[1]) |-> Project(Specimens[w[1][i]], w[2])]] :
        w \in {x \in Batches \X Schemas : x[2] = SourceColumns \/ Len(x[1]) <= 1}}

Headers ==
    { <<"RPS No", "Route_Reaching_Date_Time", "Route">>,
      <<"Route_Reaching_Date_Time", "Vehicle_Number", "RPS No">>,
      <<"RPS No", "Vehicle_Number">>,
      <<"Remarks", "RPS No", "Route_Reaching_Date_Time">>,
      <<"Vehicle_Number", "Route_Reaching_Date_Time">> }

ExistingIds == {A1, A2, A3 \o <<" ">>}

SheetRow(h, id) ==
    [j \in 1..Len(h) |->
        IF h[j] = "RPS No" THEN id
        ELSE IF h[j] = "Route_Reaching_Date_Time" THEN <<"0", "1">>
        ELSE <<"k">>]

Worksheets ==
    {[header |-> h, rows |-> [i \in 1..Len(ids) |-> SheetRow(h, ids[i])]] :
        h \in Headers, ids \in UNION {[1..n -> ExistingIds] : n \in 0..MaxRows}}

(* ---- state ---- *)
VARIABLES
    excel,              \* the downloaded workbook, as pd.read_excel returns it
    sheet,              \* the worksheet: header row and data rows
    sheet0,             \* the worksheet as it was when the current run started
    pc,                 \* position of the current run in push_excel_to_google_sheet
    run,                \* number of the current run
    df_clean,           \* local df_clean
    existing_rps_set,   \* local existing_rps_set
    new_data,           \* local new_data: rows [idx, cells, ts]
    columns,            \* new_data.columns
    sheet_headers,      \* local sheet_headers
    err,                \* exception that ended the run, "" when none
    attempts,           \* times the call that raised was issued
    calls,              \* worksheet API calls issued by the current run, in order
    results             \* per finished run: how it ended and how many rows it appended

vars == <<excel, sheet, sheet0, pc, run, df_clean, existing_rps_set, new_data, columns,
          sheet_headers, err, attempts, calls, results>>

locals == <<df_clean, existing_rps_set, new_data, columns, sheet_headers>>

NoFrame == [columns |-> <<>>, rows |-> <<>>]

Init ==
    /\ excel \in Workbooks
    /\ sheet \in Worksheets
    /\ sheet0 = sheet
    /\ pc = "read_excel"
    /\ run = 1
    /\ df_clean = NoFrame
    /\ existing_rps_set = {}
    /\ new_data = <<>>
    /\ columns = <<>>
    /\ sheet_headers = <<>>
    /\ err = ""
    /\ attempts = 0
    /\ calls = <<>>
    /\ results = <<>>

\* the run ends, normally ("done") or with an exception ("raised")
Finish(outcome, e, rows) ==
    /\ pc' = outcome
    /\ err' = e
    /\ results' = Append(results, [outcome |-> outcome, committed |-> Len(rows) - Len(sheet0.rows)])

(* ---- pure steps of the function ---- *)
\* variant of clean_cell without fillna: a missing cell stays NaN
clean_cell_no_fillna(c) == IF c \in {Inf, NegInf} THEN Empty ELSE c

\* df.replace([inf, -inf], "").fillna("")
clean_cell(c) == IF c \in {Inf, NegInf, NaN} THEN Empty ELSE c

clean(df) ==
    [columns |-> df.columns,
     rows |-> [i \in 1..Len(df.rows) |-> [j \in 1..Len(df.columns) |-> clean_cell(df.rows[i][j])]]]

\* sheet.get_all_records(): one dict per data row, keyed by the header row,
\* short rows padded with "", cells numericised
get_all_records(s) ==
    [i \in 1..Len(s.rows) |->
        [h \in Range(s.header) |->
            LET j == ColIndex(s.header, h)
            IN  IF j <= Len(s.rows[i]) THEN numericise_str(s.rows[i][j]) ELSE Empty]]

\* str(row.get("RPS No", "")).strip()
row_rps(row) == strip(IF "RPS No" \in DOMAIN row THEN row["RPS No"] ELSE Empty)

existing_rps(records) == {row_rps(records[i]) : i \in 1..Len(records)}

Indexed(df) == [i \in 1..Len(df.rows) |-> [idx |-> i, cells |-> df.rows[i], ts |-> NaT]]

\* variant of filter_new with drop_duplicates("RPS Number"): of the new rows
\* with one RPS Number only the first is kept
filter_new_drop_duplicates(df, existing) ==
    LET k == ColIndex(df.columns, "RPS Number")
        all == Indexed(df)
    IN  SelectSeq(all,
            LAMBDA r : /\ r.cells[ColIndex(df.columns, "Closure Date")] # Empty
                       /\ r.cells[k] \notin existing
                       /\ \A i \in 1..(r.idx - 1) :
                            \/ all[i].cells[k] # r.cells[k]
                            \/ all[i].cells[ColIndex(df.columns, "Closure Date")] = Empty)

\* rows with a Closure Date whose RPS Number is not in the worksheet
filter_new(df, existing) ==
    SelectSeq(Indexed(df),
        LAMBDA r : /\ r.cells[ColIndex(df.columns, "Closure Date")] # Empty
                   /\ r.cells[ColIndex(df.columns, "RPS Number")] \notin existing)

\* [reverse_mapping[h] for h in sheet_headers if h in reverse_mapping]
ordered_columns(headers) ==
    LET hs == SelectSeq(headers, LAMBDA h : h \in DOMAIN reverse_mapping)
    IN  [j \in 1..Len(hs) |-> reverse_mapping[hs[j]]]

\* new_data[ordered_columns]
select_columns(nd, cols, ordered) ==
    [i \in 1..Len(nd) |->
        [nd[i] EXCEPT !.cells = [j \in 1..Len(ordered) |-> nd[i].cells[ColIndex(cols, ordered[j])]]]]

\* rename(columns=column_mapping)
rename(cols) == [j \in 1..Len(cols) |-> IF cols[j] \in DOMAIN column_mapping THEN column_mapping[cols[j]] ELSE cols[j]]

\* new_data["Route"].astype(str).str.replace(" ", "").str.strip()
strip_route(nd, cols) ==
    LET k == ColIndex(cols, "Route")
    IN  [i \in 1..Len(nd) |-> [nd[i] EXCEPT !.cells[k] = strip(replace_spaces(@))]]

\* pd.to_datetime(new_data["Route_Reaching_Date_Time"], errors="coerce")
parse_dates(nd, cols) ==
    LET k == ColIndex(cols, "Route_Reaching_Date_Time")
    IN  [i \in 1..Len(nd) |-> [nd[i] EXCEPT !.ts = to_datetime(nd[i].cells[k])]]

\* order of sort_values: ascending, NaT last
ts_le(a, b) == ~b.valid \/ (a.valid /\ a.t <= b.t)

is_sorted(nd) == \A i, j \in 1..Len(nd) : i < j => ts_le(nd[i].ts, nd[j].ts)

Reorderings(nd) == {[i \in 1..Len(nd) |-> nd[f[i]]] : f \in Permutations(1..Len(nd))}

\* variant of sort_values whose result is not assigned: the rows stay in
\* the workbook's order
sort_values_unassigned(nd) == {nd}

\* sort_values("Route_Reaching_Date_Time"): the default sort is not stable,
\* so rows with equal keys may come out in any order
sort_values(nd) == {p \in Reorderings(nd) : is_sorted(p)}

\* new_data.astype(str).values.tolist()
values_tolist(nd, cols) ==
    [i \in 1..Len(nd) |->
        [j \in 1..Len(cols) |->
            IF cols[j] = "Route_Reaching_Date_Time" THEN str_datetime(nd[i].ts) ELSE nd[i].cells[j]]]

\* variant of append_rows that writes the batch over the worksheet's rows
update_rows(s, values) == [s EXCEPT !.rows = values]

\* variant of append_rows that sends the first row of the batch only
append_first_row(s, values) == [s EXCEPT !.rows = @ \o SubSeq(values, 1, 1)]

\* sheet.append_rows(values): the rows go below the last row, from the first column
append_rows(s, values) == [s EXCEPT !.rows = @ \o values]

(* ---- the run, step by step ---- *)
\* lines 132-134: read the workbook and blank its non-finite and missing cells
ReadExcel ==
    /\ pc = "read_excel"
    /\ df_clean' = clean(excel)
    /\ pc' = "open"
    /\ UNCHANGED <<excel, sheet, sheet0, run, existing_rps_set, new_data, columns,
                   sheet_headers, err, attempts, calls, results>>

\* lines 136-142: authorize and open the worksheet
OpenSheet ==
    /\ pc = "open"
    /\ calls' = Append(calls, "open")
    /\ pc' = "get_all_records"
    /\ UNCHANGED <<excel, sheet, sheet0, run, locals, err, attempts, results>>

\* lines 144-146: read every row and collect the RPS numbers already there
GetAllRecords ==
    /\ pc = "get_all_records"
    /\ calls' = Append(calls, "get_all_records")
    /\ existing_rps_set' = existing_rps(get_all_records(sheet))
    /\ pc' = "filter"
    /\ UNCHANGED <<excel, sheet, sheet0, run, df_clean, new_data, columns,
                   sheet_headers, err, attempts, results>>

\* lines 149-150: df_clean["Closure Date"] or df_clean["RPS Number"] raises KeyError
FilterKeyError ==
    /\ pc = "filter"
    /\ ~HasColumn(df_clean.columns, "Closure Date") \/ ~HasColumn(df_clean.columns, "RPS Number")
    /\ Finish("raised", "KeyError", sheet.rows)
    /\ UNCHANGED <<excel, sheet, sheet0, run, locals, attempts, calls>>

\* lines 148-154: nothing new, the function returns
FilterEmpty ==
    /\ pc = "filter"
    /\ HasColumn(df_clean.columns, "Closure Date") /\ HasColumn(df_clean.columns, "RPS Number")
    /\ filter_new(df_clean, existing_rps_set) = <<>>
    /\ Finish("done", "", sheet.rows)
    /\ UNCHANGED <<excel, sheet, sheet0, run, locals, attempts, calls>>

\* lines 148-152: some rows are new
Filter ==
    /\ pc = "filter"
    /\ HasColumn(df_clean.columns, "Closure Date") /\ HasColumn(df_clean.columns, "RPS Number")
    /\ filter_new(df_clean, existing_rps_set) # <<>>
    /\ new_data' = filter_new(df_clean, existing_rps_set)
    /\ columns' = df_clean.columns
    /\ pc' = "row_values"
    /\ UNCHANGED <<excel, sheet, sheet0, run, df_clean, existing_rps_set,
                   sheet_headers, err, attempts, calls, results>>

\* lines 156-157: read the header row
RowValues ==
    /\ pc = "row_values"
    /\ calls' = Append(calls, "row_values")
    /\ sheet_headers' = sheet.header
    /\ pc' = "reorder"
    /\ UNCHANGED <<excel, sheet, sheet0, run, df_clean, existing_rps_set, new_data, columns,
                   err, attempts, results>>

\* line 172: the header row names a mapped column the workbook does not have
ReorderKeyError ==
    /\ pc = "reorder"
    /\ ~(Range(ordered_columns(sheet_headers)) \subseteq Range(columns))
    /\ Finish("raised", "KeyError", sheet.rows)
    /\ UNCHANGED <<excel, sheet, sheet0, run, locals, attempts, calls>>

\* lines 159-173: keep the mapped columns of the header row, in its order, renamed
Reorder ==
    /\ pc = "reorder"
    /\ Range(ordered_columns(sheet_headers)) \subseteq Range(columns)
    /\ new_data' = select_columns(new_data, columns, ordered_columns(sheet_headers))
    /\ columns' = rename(ordered_columns(sheet_headers))
    /\ pc' = "route"
    /\ UNCHANGED <<excel, sheet, sheet0, run, df_clean, existing_rps_set,
                   sheet_headers, err, attempts, calls, results>>

\* lines 175-177: remove the spaces of the Route column, when there is one
Route ==
    /\ pc = "route"
    /\ new_data' = IF HasColumn(columns, "Route") THEN strip_route(new_data, columns) ELSE new_data
    /\ pc' = "sort"
    /\ UNCHANGED <<excel, sheet, sheet0, run, df_clean, existing_rps_set, columns,
                   sheet_headers, err, attempts, calls, results>>

\* line 181: new_data["Route_Reaching_Date_Time"] raises KeyError
SortKeyError ==
    /\ pc = "sort"
    /\ ~HasColumn(columns, "Route_Reaching_Date_Time")
    /\ Finish("raised", "KeyError", sheet.rows)
    /\ UNCHANGED <<excel, sheet, sheet0, run, locals, attempts, calls>>

\* lines 180-182: parse the closure dates and sort by them
Sort ==
    /\ pc = "sort"
    /\ HasColumn(columns, "Route_Reaching_Date_Time")
    /\ new_data' \in sort_values(parse_dates(new_data, columns))
    /\ pc' = "append"
    /\ UNCHANGED <<excel, sheet, sheet0, run, df_clean, existing_rps_set, columns,
                   sheet_headers, err, attempts, calls, results>>

\* lines 184-186: append the batch below the worksheet's rows
AppendRows ==
    /\ pc = "append"
    /\ calls' = Append(calls, "append_rows")
    /\ sheet' = append_rows(sheet, values_tolist(new_data, columns))
    /\ Finish("done", "", sheet'.rows)
    /\ UNCHANGED <<excel, sheet0, run, locals, attempts>>

ApiSteps == {"open", "get_all_records", "row_values", "append"}

ApiName(p) == IF p = "append" THEN "append_rows" ELSE p

ApiErrors == {"APIError 503", "APIError 403"}

\* lines 142, 145, 157, 185: the call is issued once, bare; whatever it
\* raises leaves the function, and a call that raises has written nothing
ApiRaises ==
    /\ pc \in ApiSteps
    /\ \E e \in ApiErrors :
        /\ calls' = Append(calls, ApiName(pc))
        /\ attempts' = 1
        /\ Finish("raised", e, sheet.rows)
    /\ UNCHANGED <<excel, sheet, sheet0, run, locals>>

\* lines 189-196: the script is started again on the same workbook
Rerun ==
    /\ pc \in {"done", "raised"}
    /\ run < MaxRuns
    /\ run' = run + 1
    /\ sheet0' = sheet
    /\ pc' = "read_excel"
    /\ df_clean' = NoFrame
    /\ existing_rps_set' = {}
    /\ new_data' = <<>>
    /\ columns' = <<>>
    /\ sheet_headers' = <<>>
    /\ err' = ""
    /\ attempts' = 0
    /\ calls' = <<>>
    /\ UNCHANGED <<excel, sheet, results>>

Next ==
    \/ ReadExcel
    \/ OpenSheet
    \/ GetAllRecords
    \/ FilterKeyError
    \/ FilterEmpty
    \/ Filter
    \/ RowValues
    \/ ReorderKeyError
    \/ Reorder
    \/ Route
    \/ SortKeyError
    \/ Sort
    \/ AppendRows
    \/ ApiRaises
    \/ Rerun

Spec == Init /\ [][Next]_vars

(* ---- what a finished run did ---- *)
\* the rows the current run added below the rows it found
Appended == SubSeq(sheet.rows, Len(sheet0.rows) + 1, Len(sheet.rows))

\* the current run returned after its append_rows call
Committed == pc = "done" /\ HasColumn(calls, "append_rows")

\* cell of workbook record i in source column name
SourceCell(i, name) == excel.rows[i][ColIndex(excel.columns, name)]

\* the identity values the worksheet held under "RPS No" when the run started
IdentitiesBefore ==
    IF HasColumn(sheet0.header, "RPS No")
    THEN {strip(sheet0.rows[i][ColIndex(sheet0.header, "RPS No")]) :
            i \in {k \in 1..Len(sheet0.rows) : ColIndex(sheet0.header, "RPS No") <= Len(sheet0.rows[k])}}
    ELSE {}

(* ---- claims ---- *)

\* C1: two successive runs on the same workbook that both return normally:
\* the second one appends no row.
Idempotence ==
    \A k \in 1..(Len(results) - 1) :
        (results[k].outcome = "done" /\ results[k + 1].outcome = "done")
            => results[k + 1].committed = 0

\* C2: no record is appended whose RPS Number, trimmed, equals the trimmed
\* "RPS No" of a row the worksheet held when the run started.
AtMostOnce ==
    Committed =>
        \A i \in 1..Len(new_data) :
            strip(SourceCell(new_data[i].idx, "RPS Number")) \notin IdentitiesBefore

\* C3 (as claimed): the rows appended by one run have pairwise different
\* RPS Numbers, so a batch holding A3 twice appends A3 once.
WithinBatchCollapsed ==
    Committed =>
        \A i, j \in 1..Len(new_data) :
            i # j => SourceCell(new_data[i].idx, "RPS Number") # SourceCell(new_data[j].idx, "RPS Number")

\* the workbook records a run has to append: Closure Date present, RPS
\* Number not among the identities read from the worksheet
NewRecords ==
    {i \in 1..Len(excel.rows) :
        /\ clean_cell(SourceCell(i, "Closure Date")) # Empty
        /\ clean_cell(SourceCell(i, "RPS Number")) \notin existing_rps_set}

\* C3 (amended): a run that returns normally appends one row for each
\* workbook record that has a Closure Date and whose RPS Number is not among
\* the identities read from the worksheet, records with equal RPS Numbers
\* included.
EveryNewRecordCommitted ==
    pc = "done" =>
        /\ Len(Appended) = Cardinality(NewRecords)
        /\ {new_data[i].idx : i \in 1..Len(new_data)} = NewRecords

\* C3 witness: the worksheet held A1 and A2, the workbook holds A1, A3, A3,
\* and the run appended two rows
BothDuplicatesCommitted ==
    /\ Committed
    /\ IdentitiesBefore = {A1, A2}
    /\ Len(excel.rows) = 3
    /\ {strip(SourceCell(i, "RPS Number")) : i \in 1..Len(excel.rows)} = {A1, A3}
    /\ Len(Appended) = 2
    /\ \A i \in 1..Len(new_data) : SourceCell(new_data[i].idx, "RPS Number") = A3

\* C4: no appended row comes from a record whose Closure Date is empty or
\* absent, and every appended row comes from a record of the workbook.
RequiredFieldFilter ==
    pc = "done" =>
        /\ Len(Appended) = Len(new_data)
        /\ \A i \in 1..Len(new_data) :
            SourceCell(new_data[i].idx, "Closure Date") \notin {Empty, NaN}

\* C4 witness: rows were appended from a workbook that also holds a record
\* with an empty Closure Date and one with none
IncompleteRecordsLeftOut ==
    /\ Committed
    /\ Appended # <<>>
    /\ \E i, j \in 1..Len(excel.rows) :
        SourceCell(i, "Closure Date") = Empty /\ SourceCell(j, "Closure Date") = NaN

\* the timestamp pandas parses from the Closure Date of workbook record i
ClosureTs(i) == to_datetime(clean_cell(SourceCell(i, "Closure Date")))

\* C5 (as claimed): the appended rows are in non-decreasing timestamp order
\* and every row without a timestamp comes before every row with one.
UndatedFirst ==
    Committed =>
        \A i, j \in 1..Len(new_data) :
            i < j => LET a == ClosureTs(new_data[i].idx)
                         b == ClosureTs(new_data[j].idx)
                     IN  ~a.valid \/ (b.valid /\ a.t <= b.t)

\* C5 (amended): the appended rows are in non-decreasing timestamp order,
\* every row without a timestamp comes after every row with one, and no
\* record is dropped for having no timestamp.
UndatedLast ==
    Committed =>
        /\ \A i, j \in 1..Len(new_data) :
            i < j => LET a == ClosureTs(new_data[i].idx)
                         b == ClosureTs(new_data[j].idx)
                     IN  ~b.valid \/ (a.valid /\ a.t <= b.t)
        /\ Len(Appended) = Cardinality(NewRecords)
        /\ \A k \in 1..Len(Appended) :
            Appended[k][ColIndex(columns, "Route_Reaching_Date_Time")] =
                str_datetime(ClosureTs(new_data[k].idx))

\* C5 witness: an undated record that precedes a dated one in the workbook
\* was appended after it
UndatedAfterDated ==
    /\ Committed
    /\ \E i, j \in 1..Len(new_data) :
        /\ i < j
        /\ new_data[i].idx > new_data[j].idx
        /\ ClosureTs(new_data[i].idx).valid
        /\ ~ClosureTs(new_data[j].idx).valid


\* the mapped headers of the header row the run found, in its order
MappedOf(header) == SelectSeq(header, LAMBDA h : h \in MappedHeaders)

\* destination columns that no step of the run rewrites
Verbatim == {"RPS No", "Vehicle_Number", "Route_Start_Date_Time"}

\* C6: a run on a complete workbook that meets no API error appends, for
\* every new record, one row with one cell per mapped header of the header
\* row, in the header row's order; cells of the columns the run does not
\* normalise are the record's values.
ColumnFidelity ==
    (pc \in {"done", "raised"} /\ err \notin ApiErrors /\ excel.columns = SourceColumns) =>
        LET hs == MappedOf(sheet0.header)
        IN  /\ Len(Appended) = Cardinality(NewRecords)
            /\ \A k \in 1..Len(Appended) :
                /\ Len(Appended[k]) = Len(hs)
                /\ \A j \in 1..Len(hs) :
                    hs[j] \in Verbatim =>
                        Appended[k][j] = clean_cell(SourceCell(new_data[k].idx, reverse_mapping[hs[j]]))

\* C7: the header row and the rows the run found are still there, unchanged
\* and in the same order, above whatever the run added.
AppendOnly ==
    /\ sheet.header = sheet0.header
    /\ Len(sheet0.rows) <= Len(sheet.rows)
    /\ SubSeq(sheet.rows, 1, Len(sheet0.rows)) = sheet0.rows

\* C7 witness: a run added rows below rows that were already there
ExistingRowsKept ==
    /\ Committed
    /\ sheet0.rows # <<>>
    /\ Len(sheet.rows) > Len(sheet0.rows)

\* C8: a run does not raise on a service-unavailable error before the call
\* has been issued three times.
TransientRetried == (pc = "raised" /\ err = "APIError 503") => attempts >= 3

\* C9: when the workbook has no "RPS Number" column or the header row has
\* no "RPS No", the run appends nothing.
MissingIdentityFatal ==
    (~HasColumn(excel.columns, "RPS Number") \/ ~HasColumn(sheet0.header, "RPS No"))
        => sheet.rows = sheet0.rows

\* C10: the worksheet differs from what the run found only after the run
\* has read all rows, then the header row, then issued its one append_rows
\* call, which wrote the whole batch; a run that raised before append_rows
\* or that found nothing new left the worksheet as it was.
ReadsPrecedeWrite ==
    /\ sheet # sheet0 =>
        /\ pc = "done"
        /\ calls = <<"open", "get_all_records", "row_values", "append_rows">>
        /\ Len(Appended) = Len(new_data)
    /\ Cardinality({i \in 1..Len(calls) : calls[i] = "append_rows"}) <= 1
    /\ (pc = "raised" /\ ~HasColumn(calls, "append_rows")) => sheet = sheet0
    /\ (pc = "done" /\ new_data = <<>>) => sheet = sheet0

\* C10 witness: a batch of several rows was written by the run's last call
WholeBatchAfterReads ==
    /\ Committed
    /\ calls = <<"open", "get_all_records", "row_values", "append_rows">>
    /\ Len(new_data) >= 2
    /\ Len(Appended) = Len(new_data)

====
